---- MODULE Spec2Model ----
(***************************************************************************)
(* Signal Visualizer: playback queue/worker of the additive generator      *)
(* (core/generators/generateFreeAdd.py), the page management of the main   *)
(* window (main.py), the span-selection preview handlers of the generator  *)
(* and input pages, and the generation of the base signal and its hand-off *)
(* to a controller window in the FreeAdd, Noise and PureTone generators.   *)
(*                                                                         *)
(* The sounddevice module keeps ONE module-level playback (the stream      *)
(* started by the last sd.play): sd.play stops the playback before it and  *)
(* starts a new one, sd.stop stops it, sd.wait blocks until the playback   *)
(* that is current at the call has ended.  An sd.OutputStream opened by    *)
(* hand is a separate stream that sd.stop and sd.play do not touch.        *)
(***************************************************************************)
EXTENDS Integers, Sequences, FiniteSets, TLC

\* ------------------------------------------------------------------ bounds
MaxInst == 2      \* FreeAdditionPureTones objects created in one run
MaxReq  == 3      \* playback requests enqueued in one run (A, B, C)
MaxLen  == 4      \* samples of a generated signal
Res     == 2      \* selection coordinates per sample period
MaxDur  == 2      \* largest duration setting, in hundredths of a second
MaxWin  == 6      \* control windows made from the Load page in one run
MaxOpen == 2      \* control windows followed together with their plot windows
MaxRec  == 2      \* recordings started in one run
MaxFrames == 2    \* frames delivered to one recording
MaxCleanups == 3  \* cleanup() calls counted per AudioFFTVisualizer object

\* ------------------------------------------------------------- vocabulary
None  == 0                  \* the (None, None) sentinel of the queue
Insts == 1..MaxInst
Pages == {"Info", "FreeAdditionPureTones"}
FA    == "FreeAdditionPureTones"
Tuner == "Tuner"
AllPages == Pages \cup {Tuner}

VARIABLES
    frames,       \* Start.frames: page -> object id (0: no such key)
    shown,        \* the page whose widget is in Start.layout
    audio_queue,  \* per object: FreeAdditionPureTones.audio_queue
    audio_thread, \* per object: where the _audio_worker thread stands
    piano,        \* per object: self.piano is not None
    pianoOpen,    \* per object: self.pianoOpen
    closed,       \* per object: closeEvent has run
    sdOwner,      \* the module-level sd playback: who started it
    pianoStream,  \* the sd.OutputStream of playPianoNote is open
    enq,          \* history: requests put on each queue, in order
    handed,       \* history: requests each worker handed to sd.play, in order
    failed,       \* history: requests whose playback raised
    lastExit,     \* history: what made each worker leave its loop
    late,         \* history: requests put on a queue whose sentinel was consumed
    nReq,         \* requests created so far
    \* ---- span-selection preview handlers (PreviewSpec)
    page,         \* the page whose handler is connected to the span selector
    nsamp,        \* len(audio) = len(time) of that page
    sel,          \* the last selection <<xmin, xmax>>
    idx,          \* the indices <<start, end>> the handler computed
    segment,      \* the extracted samples, each <<index, gain numerator, gain denominator>>
    wasPlaying,   \* a preview was playing when the last handler ran
    calls,        \* the sd calls the last handler made, in order
    escaped,      \* the last handler let an exception escape
    \* ---- signal generation and hand-off (GenSpec)
    dur,          \* the duration control, in hundredths of a second
    fs_entry,     \* Noise: the text of the sample-rate field
    fs,           \* self.fs / default_values['fs'] of the page
    gen,          \* history: <<duration, rate>> the stored signal was made with
    ntime,        \* entries of the time axis the span handler searches
    full_audio,   \* the stored signal, each sample <<index, gain num., gain den.>>
    outcome,      \* how the last generation call ended
    segOf,        \* history: the signal the stored segment was cut from
    loaded,       \* history: what the last Load to Controller handed off
    \* ---- tone controls and piano window of the additive generator
    freq_spinboxes, \* per object: the values of the six frequency spin boxes
    amp_sliders,    \* per object: the values of the six amplitude sliders
    octave_spinbox, \* per object: the value of the piano's octave spin box
    piano_btn,      \* per object: the Piano button is enabled
    pianoError,     \* the last Piano click raised AttributeError
    struck,         \* history: <<object, note_value, octave>> of the last key strike
    \* ---- control windows (LoadSpec, WindowSpec)
    control_windows, \* per page: the control_windows list of the page's object
    winState,       \* per window: "none", "open", "closed" or "deleted"
    plotOpen,       \* per window: its plot_windows holds an open plot window
    closeLog,       \* history: what the last close_all_windows closed, in order
    nWin,           \* control windows created so far
    winBudget,      \* the number of control windows the run follows
    evicted,        \* history: the window the last on_load took from the list
    mainClosed,     \* Start.closeEvent accepted the close of the main window
    handoff,        \* history: <<samples, duration numerator, duration
                    \* denominator, rate>> the last followed ControlMenu got
    \* ---- Record page (RecordSpec)
    isrecording,    \* Record.isrecording
    record_button,  \* the Record button is enabled
    stop_button,    \* the Stop button is enabled
    rec_frames,     \* Record.frames: per frame the recording it belongs to
    recording_thread, \* Record.recording_thread: its recording, 0 for None
    running_threads,  \* the recording threads that are running
    auto_stop_timer,  \* auto_stop_timer is active
    errPending,     \* recording_error signals emitted and not yet delivered
    scheduled,      \* the recordings whose process_recording call is pending
    captured,       \* history: per recording the frames it had at its stop
    processedOf,    \* history: per recording the frames its call worked on
    nRec,           \* recordings started so far
    stoppedIdle,    \* history: stop_recording was invoked while not recording
    \* ---- Tuner page (TunerSpec)
    tuner,          \* per AudioFFTVisualizer object: stream, PyAudio, cleanups
    shownTuner,     \* the AudioFFTVisualizer object in Start.layout, 0 if none
    navError        \* the last initialize_frame let an exception escape

playVars == <<frames, shown, audio_queue, audio_thread, piano, pianoOpen,
              closed, pianoStream, enq, handed, failed, lastExit, late,
              nReq>>
prevVars == <<page, nsamp, sel, idx, segment, wasPlaying, calls, escaped>>
ctlVars == <<dur, fs_entry, fs, gen, outcome, loaded>>
genVars == <<ctlVars, ntime, full_audio, segOf>>
toneVars == <<freq_spinboxes, amp_sliders, octave_spinbox, piano_btn,
              pianoError, struck>>
winVars == <<control_windows, winState, plotOpen, closeLog, nWin, winBudget,
             evicted, mainClosed, handoff>>
recVars == <<isrecording, record_button, stop_button, rec_frames,
             recording_thread, running_threads, auto_stop_timer, errPending,
             scheduled, captured, processedOf, nRec, stoppedIdle>>
tunerVars == <<tuner, shownTuner, navError>>
pageVars == <<winVars, recVars, tunerVars>>
restVars == <<toneVars, pageVars>>
vars == <<playVars, sdOwner, prevVars, genVars, restVars>>

NoPlayback == <<"none", 0>>
Worker(i)  == <<"worker", i>>
Preview(i) == <<"preview", i>>

\* ------------------------------------------------- playback queue / worker

\* Queue.get of a FIFO queue.Queue: the item at the head, and what is left.
\* (QueueHead_lifo: what a LifoQueue would return; QueueRest_keep: a get
\* that leaves the item in the queue)
QueueHead_lifo(q) == q[Len(q)]
QueueHead(q) == Head(q)
QueueRest_keep(q) == q
QueueRest(q) == Tail(q)

\* "if signal is None: break": the thread ends
\* (AfterSentinel_continue: "continue" in place of "break")
AfterSentinel_continue == "waiting"
AfterSentinel == "stopped"

\* the worker's except clause: "print(...)" and the loop goes on
\* (AfterPlaybackError_exit: a try/except placed around the loop)
AfterPlaybackError_exit == "stopped"
AfterPlaybackError == "waiting"

\* sd.play(signal, fs, blocking=True): the call returns when the playback
\* has ended
AfterPlayStarted == "playing"

\* the playback that is current has ended (finished, stopped or replaced):
\* every thread blocked in sd.wait() on it is released
\* (PlaybackEnded_lost: the wake-up never reaches the blocked thread)
PlaybackEnded_lost(at) == at
PlaybackEnded(at) ==
    [j \in Insts |-> IF at[j] = "blocked" THEN "released" ELSE at[j]]

\* a producer puts a request (signal, fs) on the queue of object i
Enqueue(i) ==
    /\ audio_thread[i] # "none"
    /\ nReq < MaxReq
    /\ nReq' = nReq + 1
    /\ audio_queue' = [audio_queue EXCEPT ![i] = Append(@, nReq + 1)]
    /\ enq' = [enq EXCEPT ![i] = Append(@, nReq + 1)]
    /\ late' = IF lastExit[i] = "sentinel" THEN late \cup {nReq + 1} ELSE late
    /\ UNCHANGED <<frames, shown, audio_thread, piano, pianoOpen, closed,
                   sdOwner, pianoStream, handed, failed, lastExit, prevVars, genVars, restVars>>

\* _audio_worker: queue.get(), the sentinel test, and the call of sd.play,
\* which stops the playback before it and raises when the device fails
WorkerGet(i, err) ==
    /\ audio_thread[i] = "waiting"
    /\ audio_queue[i] # << >>
    /\ audio_queue' = [audio_queue EXCEPT ![i] = QueueRest(@)]
    /\ LET item == QueueHead(audio_queue[i]) IN
       IF item = None
       THEN /\ audio_thread' = [audio_thread EXCEPT ![i] = AfterSentinel]
            /\ lastExit' = [lastExit EXCEPT ![i] = "sentinel"]
            /\ UNCHANGED <<sdOwner, handed, failed>>
       ELSE /\ handed' = [handed EXCEPT ![i] = Append(@, item)]
            /\ IF err
               THEN /\ failed' = failed \cup {item}
                    /\ sdOwner' = NoPlayback
                    /\ audio_thread' =
                         [PlaybackEnded(audio_thread) EXCEPT ![i] = AfterPlaybackError]
                    /\ UNCHANGED lastExit
               ELSE /\ sdOwner' = Worker(i)
                    /\ audio_thread' =
                         [PlaybackEnded(audio_thread) EXCEPT ![i] = AfterPlayStarted]
                    /\ UNCHANGED <<failed, lastExit>>
    /\ UNCHANGED <<frames, shown, piano, pianoOpen, closed, pianoStream,
                   enq, late, nReq, prevVars, genVars, restVars>>

\* sd.play(..., blocking=True) returns: the worker's playback finished, or
\* another sd.play / sd.stop ended it
WorkerPlayReturns(i) ==
    /\ audio_thread[i] = "playing"
    /\ IF sdOwner = Worker(i)
       THEN /\ sdOwner' = NoPlayback
            /\ audio_thread' = [PlaybackEnded(audio_thread) EXCEPT ![i] = "sdwait"]
       ELSE /\ audio_thread' = [audio_thread EXCEPT ![i] = "sdwait"]
            /\ UNCHANGED sdOwner
    /\ UNCHANGED <<frames, shown, audio_queue, piano, pianoOpen, closed,
                   pianoStream, enq, handed, failed, lastExit, late, nReq, prevVars, genVars, restVars>>

\* sd.wait(): returns at once when nothing is playing, else blocks on the
\* playback that is current
WorkerWait(i) ==
    /\ audio_thread[i] = "sdwait"
    /\ audio_thread' = [audio_thread EXCEPT ![i] =
                          IF sdOwner = NoPlayback THEN "waiting" ELSE "blocked"]
    /\ UNCHANGED <<frames, shown, audio_queue, piano, pianoOpen, closed,
                   sdOwner, pianoStream, enq, handed, failed, lastExit, late, nReq,
                   prevVars, genVars, restVars>>

\* sd.wait() returns and the loop goes back to queue.get()
WorkerWaitReturns(i) ==
    /\ audio_thread[i] = "released"
    /\ audio_thread' = [audio_thread EXCEPT ![i] = "waiting"]
    /\ UNCHANGED <<frames, shown, audio_queue, piano, pianoOpen, closed,
                   sdOwner, pianoStream, enq, handed, failed, lastExit, late, nReq,
                   prevVars, genVars, restVars>>

WorkerStep(i) ==
    \/ \E err \in BOOLEAN : WorkerGet(i, err)
    \/ WorkerPlayReturns(i)
    \/ WorkerWait(i)
    \/ WorkerWaitReturns(i)

\* ------------------------------------- tone controls and the piano's notes

\* initUI: sb.setRange(0, 24000) of the six frequency spin boxes
FreqMax == 24000

\* QSpinBox.setValue: a value outside the range becomes the nearest limit
setValue(v) == IF v > FreqMax THEN FreqMax ELSE IF v < 0 THEN 0 ELSE v

\* default_values: freq1..freq6 and amp1..amp6, the amplitudes in the
\* slider's unit, int(float(text) * 100)
DefaultFreqs == <<440, 880, 1320, 1760, 2200, 2640>>
DefaultAmps == <<100, 83, 67, 50, 33, 17>>

\* showPiano: the note_value of the white and black keys, the range of the
\* octave spin box and the value it is given
Keys == 0..23
KeyA == 9
Octaves == 1..8
DefaultOctave == 4

midi_note_from_c(note_value, octave) == note_value + (octave + 1) * 12

\* midi_note = note_value + (octave * 12)
midi_note(note_value, octave) == note_value + octave * 12

\* 440 * (2 ** ((m - 69) / 12)) for m = 108..119, in 1/10000 Hz; the note
\* twelve semitones lower has half the frequency
TopOctave == <<41860090, 44349221, 46986363, 49780317, 52740409, 55876517,
               59199108, 62719270, 66448752, 70400000, 74586202, 79021328>>

\* int(round(num / den)): round() takes a half to the even neighbour
RoundHalfEven(num, den) ==
    LET q == num \div den
        r == num % den
    IN IF 2 * r > den \/ (2 * r = den /\ q % 2 = 1) THEN q + 1 ELSE q

\* int(round(fundfreq * multiple)) for the MIDI note m of a key (12..119)
Harmonic(m, multiple) ==
    RoundHalfEven(multiple * TopOctave[(m % 12) + 1],
                  10000 * 2 ^ (9 - (m \div 12)))

\* notesHarmonics: the six spin boxes get the fundamental and its multiples
\* 2..6 through setValue, the sliders int(amp * 100) of 1, 0.83, 0.67, 0.5,
\* 0.33, 0.17
LadderFreqs(note_value, octave) ==
    [k \in 1..6 |-> setValue(Harmonic(midi_note(note_value, octave), k))]
LadderAmps == <<100, 83, 67, 50, 33, 17>>

\* no key was struck yet
NoStrike == <<0, 0, 0>>

\* FreeAdditionPureTones.__init__ / initUI: the tone controls have their
\* defaults and the Piano button is enabled; the octave spin box is made by
\* showPiano
InitTones ==
    /\ freq_spinboxes = [i \in Insts |-> DefaultFreqs]
    /\ amp_sliders = [i \in Insts |-> DefaultAmps]
    /\ octave_spinbox = [i \in Insts |-> DefaultOctave]
    /\ piano_btn = [i \in Insts |-> TRUE]
    /\ pianoError = FALSE
    /\ struck = NoStrike

\* ------------------------------------------------------ main window (pages)

\* FreeAdditionPureTones.__init__: a fresh queue and a started worker thread
NewQueue == << >>
NewThread == "waiting"

\* ---------------------------------------------------------- Record page

\* Record.__init__ / initUI: not recording, Record enabled, Stop disabled,
\* no frames, no thread, timers idle
NoProcessing == <<FALSE, << >>>>
NoRecording ==
    /\ isrecording = FALSE
    /\ record_button = TRUE
    /\ stop_button = FALSE
    /\ rec_frames = << >>
    /\ recording_thread = 0
    /\ running_threads = {}
    /\ auto_stop_timer = FALSE
    /\ errPending = {}
    /\ scheduled = {}
    /\ captured = [r \in 1..MaxRec |-> << >>]
    /\ processedOf = [r \in 1..MaxRec |-> NoProcessing]
    /\ nRec = 0
    /\ stoppedIdle = FALSE

\* ----------------------------------------------------------- Tuner page

\* no AudioFFTVisualizer object was made yet
NoTunerObject ==
    [audio |-> FALSE, stream |-> "none", pa |-> "none", running |-> FALSE,
     cleanups |-> 0, again |-> FALSE]
NoTuner ==
    /\ tuner = [i \in Insts |-> NoTunerObject]
    /\ shownTuner = 0
    /\ navError = FALSE

\* AudioFFTVisualizer.__init__: PyAudio is initialised; without an input
\* device (mic) the disabled UI is set up and nothing else; otherwise
\* start_audio_stream opens the stream (opens: p.open succeeded, else the
\* object has no stream attribute) and running is set
AudioFFTVisualizer(mic, opens) ==
    [audio |-> mic,
     stream |-> IF mic /\ opens THEN "open" ELSE "none",
     pa |-> "up",
     running |-> mic,
     cleanups |-> 0,
     again |-> FALSE]

\* AudioFFTVisualizer.cleanup on the object state t, as <<state, raised>>:
\* running is cleared; with an input device the stream, if the object has
\* one, is stopped and closed and PyAudio is terminated.  Nothing records
\* that this was done before: on a closed stream stop_stream()/close() are
\* called again (again), which the audio library either rejects with an
\* exception (lib) or lets pass, terminating the backend once more
cleanup(t, lib) ==
    LET t1 == [t EXCEPT !.running = FALSE,
                        !.cleanups = IF @ < MaxCleanups THEN @ + 1 ELSE @]
    IN  IF ~t.audio THEN <<t1, FALSE>>
        ELSE IF t.stream = "none"
             THEN <<[t1 EXCEPT !.pa = "terminated"], FALSE>>
        ELSE IF t.stream = "open"
             THEN <<[t1 EXCEPT !.stream = "closed", !.pa = "terminated"],
                    FALSE>>
        ELSE IF lib THEN <<[t1 EXCEPT !.again = TRUE], TRUE>>
        ELSE <<[t1 EXCEPT !.again = TRUE, !.pa = "terminated"], FALSE>>

\* Start.initialize_frame(page_name) followed by Start.show_frame(page_name),
\* one menu selection.  initialize_frame calls cleanup() on the object
\* frames holds under the page name if it has such a method (only the Tuner
\* page's has; neither Info nor FreeAdditionPureTones has one), then makes a
\* new page object that replaces it in frames.  show_frame calls cleanup()
\* on the widget in the layout if it has the method, takes the widget out
\* with setParent(None), calls cleanup() on it a second time, and adds the
\* new object.  No call is guarded by try: an exception raised by cleanup()
\* ends the selection where it is.  closeEvent is not called.  The tone
\* controls and the Piano button of a new object have their construction
\* values (InitTones)
initialize_frame(p, mic, opens, lib) ==
    /\ ~pianoStream
    /\ LET old == frames[p]
           pre == IF p = Tuner /\ old # 0
                  THEN cleanup(tuner[old], lib)
                  ELSE <<NoTunerObject, FALSE>>
           T1  == IF p = Tuner /\ old # 0
                  THEN [tuner EXCEPT ![old] = pre[1]]
                  ELSE tuner
       IN
       IF pre[2]
       THEN /\ tuner' = T1
            /\ navError' = TRUE
            /\ UNCHANGED <<frames, shown, shownTuner, audio_queue,
                           audio_thread, piano, pianoOpen>>
       ELSE
       /\ IF p = "Info" THEN frames' = [frames EXCEPT ![p] = 1]
                        ELSE /\ old < MaxInst
                             /\ frames' = [frames EXCEPT ![p] = old + 1]
       /\ IF p = FA
          THEN LET n == old + 1 IN
               /\ audio_queue' = [audio_queue EXCEPT ![n] = NewQueue]
               /\ audio_thread' = [audio_thread EXCEPT ![n] = NewThread]
               /\ piano' = [piano EXCEPT ![n] = FALSE]
               /\ pianoOpen' = [pianoOpen EXCEPT ![n] = FALSE]
          ELSE UNCHANGED <<audio_queue, audio_thread, piano, pianoOpen>>
       /\ LET T2 == IF p = Tuner
                    THEN [T1 EXCEPT ![old + 1] = AudioFFTVisualizer(mic, opens)]
                    ELSE T1
              cur == shownTuner
          IN
          IF shown # Tuner
          THEN /\ tuner' = T2
               /\ shown' = p
               /\ shownTuner' = IF p = Tuner THEN old + 1 ELSE 0
               /\ navError' = FALSE
          ELSE LET c1 == cleanup(T2[cur], lib)
                   c2 == cleanup(c1[1], lib)
               IN
               IF c1[2]
               THEN /\ tuner' = [T2 EXCEPT ![cur] = c1[1]]
                    /\ navError' = TRUE
                    /\ UNCHANGED <<shown, shownTuner>>
               ELSE IF c2[2]
               THEN /\ tuner' = [T2 EXCEPT ![cur] = c2[1]]
                    /\ navError' = TRUE
                    /\ shown' = "none"
                    /\ shownTuner' = 0
               ELSE /\ tuner' = [T2 EXCEPT ![cur] = c2[1]]
                    /\ navError' = FALSE
                    /\ shown' = p
                    /\ shownTuner' = IF p = Tuner THEN old + 1 ELSE 0
    /\ UNCHANGED <<closed, sdOwner, pianoStream, enq, handed, failed,
                   lastExit, late, nReq, prevVars, genVars, toneVars,
                   winVars, recVars>>

\* ------------------------------------------- additive generator: UI thread

\* the object the user can act on: the one in frames, shown and not closed,
\* while the UI thread is not inside playPianoNote
Usable(i) ==
    /\ i = frames[FA]
    /\ shown = FA
    /\ ~closed[i]
    /\ ~pianoStream

\* closeEvent: the sentinel is put on the queue and the piano is closed
\* (piano.close() emits finished, whose slot on_close sets self.piano = None)
closeEvent(i) ==
    /\ Usable(i)
    /\ audio_queue' = [audio_queue EXCEPT ![i] = Append(@, None)]
    /\ enq' = [enq EXCEPT ![i] = Append(@, None)]
    /\ piano' = [piano EXCEPT ![i] = FALSE]
    /\ piano_btn' = [piano_btn EXCEPT ![i] = TRUE]
    /\ closed' = [closed EXCEPT ![i] = TRUE]
    /\ UNCHANGED <<frames, shown, audio_thread, pianoOpen, sdOwner,
                   pianoStream, handed, failed, lastExit, late, nReq,
                   prevVars, genVars, freq_spinboxes, amp_sliders,
                   octave_spinbox, pianoError, struck, pageVars>>

\* togglePiano, the slot of the Piano button (a disabled button emits no
\* click).  pianoOpen False: showPiano makes the window with the octave
\* spin box at 4 and disables the button.  pianoOpen True:
\* self.piano.close(), whose finished signal runs showPiano.on_close; when
\* self.piano is None the call raises AttributeError before the assignment
togglePiano(i) ==
    /\ Usable(i)
    /\ piano_btn[i]
    /\ IF ~pianoOpen[i]
       THEN /\ piano' = [piano EXCEPT ![i] = TRUE]
            /\ octave_spinbox' = [octave_spinbox EXCEPT ![i] = DefaultOctave]
            /\ piano_btn' = [piano_btn EXCEPT ![i] = FALSE]
            /\ pianoOpen' = [pianoOpen EXCEPT ![i] = TRUE]
            /\ pianoError' = FALSE
       ELSE IF piano[i]
            THEN /\ piano' = [piano EXCEPT ![i] = FALSE]
                 /\ piano_btn' = [piano_btn EXCEPT ![i] = TRUE]
                 /\ pianoOpen' = [pianoOpen EXCEPT ![i] = FALSE]
                 /\ pianoError' = FALSE
                 /\ UNCHANGED octave_spinbox
            ELSE /\ pianoError' = TRUE
                 /\ UNCHANGED <<piano, piano_btn, pianoOpen, octave_spinbox>>
    /\ UNCHANGED <<frames, shown, audio_queue, audio_thread, closed, sdOwner,
                   pianoStream, enq, handed, failed, lastExit, late, nReq,
                   prevVars, genVars, freq_spinboxes, amp_sliders, struck,
                   pageVars>>

\* showPiano.on_close, the slot of the window's finished signal: the user
\* closes the piano window.  self.piano is cleared and the Piano button is
\* enabled again; self.pianoOpen is not assigned
on_close(i) ==
    /\ Usable(i)
    /\ piano[i]
    /\ piano' = [piano EXCEPT ![i] = FALSE]
    /\ piano_btn' = [piano_btn EXCEPT ![i] = TRUE]
    /\ UNCHANGED <<frames, shown, audio_queue, audio_thread, pianoOpen, closed,
                   sdOwner, pianoStream, enq, handed, failed, lastExit, late, nReq,
                   prevVars, genVars, freq_spinboxes, amp_sliders,
                   octave_spinbox, pianoError, struck, pageVars>>

\* decrease_octave: not below octave 1
decrease_octave(i) ==
    /\ Usable(i)
    /\ piano[i]
    /\ octave_spinbox' = [octave_spinbox EXCEPT ![i] =
                            IF @ > 1 THEN @ - 1 ELSE @]
    /\ UNCHANGED <<playVars, sdOwner, prevVars, genVars, freq_spinboxes,
                   amp_sliders, piano_btn, pianoError, struck, pageVars>>

\* increase_octave: not above octave 8
increase_octave(i) ==
    /\ Usable(i)
    /\ piano[i]
    /\ octave_spinbox' = [octave_spinbox EXCEPT ![i] =
                            IF @ < 8 THEN @ + 1 ELSE @]
    /\ UNCHANGED <<playVars, sdOwner, prevVars, genVars, freq_spinboxes,
                   amp_sliders, piano_btn, pianoError, struck, pageVars>>

\* stream.write returns and the with-block closes the stream
PianoNoteDone ==
    /\ pianoStream
    /\ pianoStream' = FALSE
    /\ UNCHANGED <<frames, shown, audio_queue, audio_thread, piano, pianoOpen,
                   closed, sdOwner, enq, handed, failed, lastExit, late, nReq,
                   prevVars, genVars, restVars>>

\* the try block of onselect (the samples are left out here, see onselect):
\* sd.stop() then sd.play(..., blocking=False), an error is caught and printed
onselect_playback(i, errStop, errPlay) ==
    /\ Usable(i)
    /\ sdOwner' = IF errStop \/ errPlay THEN NoPlayback ELSE Preview(i)
    /\ audio_thread' = PlaybackEnded(audio_thread)
    /\ UNCHANGED <<frames, shown, audio_queue, piano, pianoOpen, closed,
                   pianoStream, enq, handed, failed, lastExit, late, nReq, prevVars, genVars, restVars>>

\* the non-blocking playback of a preview plays to its end
PreviewEnds ==
    /\ sdOwner[1] = "preview"
    /\ sdOwner' = NoPlayback
    /\ audio_thread' = PlaybackEnded(audio_thread)
    /\ UNCHANGED <<frames, shown, audio_queue, piano, pianoOpen, closed,
                   pianoStream, enq, handed, failed, lastExit, late, nReq, prevVars, genVars, restVars>>

\* ------------------------------------------ span-selection preview handlers

Handlers == {"FreeAdd", "PureTone", "SquareWave", "Noise", "Load", "Record"}

\* np.linspace(0, duration, n, endpoint=False): sample k is at k * duration/n;
\* coordinates are counted in units of duration / (n * Res)
TimeAxis(n) == [k \in 0..(n - 1) |-> k * Res]

\* the x-range of the plot: xlim = [0, duration]
Coords(n) == 0..(n * Res)

\* np.searchsorted(time, x): the number of entries below x
searchsorted(time, n, x) == Cardinality({k \in 0..(n - 1) : time[k] < x})

\* np.argmax(time >= x): the first index whose entry is True, 0 when none is
argmax_ge(time, n, x) ==
    IF \E k \in 0..(n - 1) : time[k] >= x
    THEN CHOOSE k \in 0..(n - 1) :
            /\ time[k] >= x
            /\ \A m \in 0..(n - 1) : time[m] >= x => k <= m
    ELSE 0

\* audio[a:b] of an array of n samples, as the indices it holds
Slice(a, b, n) ==
    LET hi == IF b < n THEN b ELSE n
        len == IF hi > a THEN hi - a ELSE 0
    IN [k \in 1..len |-> a + k - 1]

\* audio[ini:end+1] (FreeAdd onselect, Noise listen_fragment)
SliceInclusive(a, b, n) == Slice(a, b + 1, n)

\* audio[idx_min:idx_max] (PureTone, SquareWave, Load, Record)
SliceExclusive(a, b, n) == Slice(a, b, n)

\* a slice as it is: every sample with gain 1
Plain(ix) == [k \in 1..Len(ix) |-> <<ix[k], 1, 1>>]

\* int(0.02 * self.fs) with fs = 48000
FadeMax == 960

\* fade_samples = min(int(0.02 * self.fs), len(selected_audio) // 4)
\* (FadeSamples_over: a limit of one sample more than a quarter)
FadeSamples_over(len) ==
    IF FadeMax < (len \div 4) + 1 THEN FadeMax ELSE (len \div 4) + 1
FadeSamples(len) == IF FadeMax < (len \div 4) THEN FadeMax ELSE len \div 4

\* np.linspace(0, 1, f)[j] ** 2 and np.linspace(1, 0, f)[j] ** 2 as
\* <<numerator, denominator>>; np.linspace(a, b, 1) is [a]
FadeIn(f, j)  == IF f = 1 THEN <<0, 1>> ELSE <<j * j, (f - 1) * (f - 1)>>
FadeOut(f, j) == IF f = 1 THEN <<1, 1>>
                 ELSE <<(f - 1 - j) * (f - 1 - j), (f - 1) * (f - 1)>>

\* selected_audio[:f] *= fade_in; selected_audio[-f:] *= fade_out
Faded(ix) ==
    LET len == Len(ix)
        f == FadeSamples(len)
        gin(k)  == IF f > 0 /\ k <= f THEN FadeIn(f, k - 1) ELSE <<1, 1>>
        gout(k) == IF f > 0 /\ k > len - f THEN FadeOut(f, k - (len - f) - 1)
                   ELSE <<1, 1>>
    IN [k \in 1..len |-> <<ix[k], gin(k)[1] * gout(k)[1], gin(k)[2] * gout(k)[2]>>]

\* the module-level playback after a handler's sd.stop() (if it makes that
\* call) and sd.play(): the preview plays unless a call raised
PlaybackAfter(errStop, errPlay) ==
    IF errStop \/ errPlay THEN NoPlayback ELSE Preview(0)

\* what the in-place fade of the extracted samples leaves in the array they
\* were taken from: self.full_audio[ini:end + 1].copy() is a new array, so
\* full_audio keeps its samples
\* (FadedSource_view: a slice without .copy() is a view, and the fade is
\* written through it)
FadedSource_view(full, ini, seg) ==
    [k \in 1..Len(full) |->
        IF k - ini >= 1 /\ k - ini <= Len(seg) THEN seg[k - ini] ELSE full[k]]
FadedSource(full, ini, seg) == full

\* FreeAdditionPureTones.addLoadButton.onselect: time is the axis made by
\* addLoadButton for the signal it stored
onselect(xmin, xmax, errStop, errPlay) ==
    /\ page = "FreeAdd"
    /\ nsamp > 1
    /\ LET time == TimeAxis(ntime)
           ini == searchsorted(time, ntime, xmin)
           end == searchsorted(time, ntime, xmax)
           selected_audio == Faded(SliceInclusive(ini, end, nsamp))
       IN /\ idx' = <<ini, end>>
          /\ segment' = selected_audio
          /\ full_audio' = FadedSource(full_audio, ini, selected_audio)
    /\ sel' = <<xmin, xmax>>
    /\ segOf' = "current"
    /\ wasPlaying' = (sdOwner # NoPlayback)
    /\ calls' = IF errStop THEN <<"stop">> ELSE <<"stop", "play">>
    /\ sdOwner' = PlaybackAfter(errStop, errPlay)
    /\ escaped' = FALSE
    /\ UNCHANGED <<restVars, playVars, page, nsamp, ctlVars, ntime>>

\* PureTone.on_select_region: the time axis is made in the handler, with
\* len(self.selectedAudio) entries (so in SquareWave, Load and Record)
PureTone_on_select_region(xmin, xmax, errStop, errPlay) ==
    /\ page = "PureTone"
    /\ nsamp > 1
    /\ LET time == TimeAxis(nsamp)
           idx_min == argmax_ge(time, nsamp, xmin)
           idx_max == argmax_ge(time, nsamp, xmax)
       IN /\ idx' = <<idx_min, idx_max>>
          /\ segment' = IF errStop THEN segment
                              ELSE Plain(SliceExclusive(idx_min, idx_max, nsamp))
    /\ sel' = <<xmin, xmax>>
    /\ wasPlaying' = (sdOwner # NoPlayback)
    /\ calls' = IF errStop THEN <<"stop">> ELSE <<"stop", "play">>
    /\ sdOwner' = PlaybackAfter(errStop, errPlay)
    /\ escaped' = (errStop \/ errPlay)
    /\ ntime' = nsamp
    /\ UNCHANGED <<restVars, playVars, page, nsamp, ctlVars, full_audio, segOf>>

\* SquareWave.on_select_region
SquareWave_on_select_region(xmin, xmax, errStop, errPlay) ==
    /\ page = "SquareWave"
    /\ nsamp > 1
    /\ LET time == TimeAxis(nsamp)
           idx_min == argmax_ge(time, nsamp, xmin)
           idx_max == argmax_ge(time, nsamp, xmax)
       IN /\ idx' = <<idx_min, idx_max>>
          /\ segment' = IF errStop THEN segment
                              ELSE Plain(SliceExclusive(idx_min, idx_max, nsamp))
    /\ sel' = <<xmin, xmax>>
    /\ wasPlaying' = (sdOwner # NoPlayback)
    /\ calls' = IF errStop THEN <<"stop">> ELSE <<"stop", "play">>
    /\ sdOwner' = PlaybackAfter(errStop, errPlay)
    /\ escaped' = (errStop \/ errPlay)
    /\ ntime' = nsamp
    /\ UNCHANGED <<restVars, playVars, page, nsamp, ctlVars, full_audio, segOf>>

\* Noise.listen_fragment: no length test, no sd.stop(), no try/except; it
\* searches self.time and slices self.audio
listen_fragment(xmin, xmax, errPlay) ==
    /\ page = "Noise"
    /\ LET ini == searchsorted(TimeAxis(ntime), ntime, xmin)
           end == searchsorted(TimeAxis(ntime), ntime, xmax)
       IN /\ idx' = <<ini, end>>
          /\ segment' = Plain(SliceInclusive(ini, end, nsamp))
    /\ sel' = <<xmin, xmax>>
    /\ segOf' = "current"
    /\ wasPlaying' = (sdOwner # NoPlayback)
    /\ calls' = <<"play">>
    /\ sdOwner' = PlaybackAfter(FALSE, errPlay)
    /\ escaped' = errPlay
    /\ UNCHANGED <<restVars, playVars, page, nsamp, ctlVars, ntime, full_audio>>

\* Load.setupSpanSelector.on_select: no sd.stop(), no try/except
Load_on_select(xmin, xmax, errPlay) ==
    /\ page = "Load"
    /\ nsamp > 1
    /\ LET time == TimeAxis(nsamp)
           idx_min == argmax_ge(time, nsamp, xmin)
           idx_max == argmax_ge(time, nsamp, xmax)
       IN /\ idx' = <<idx_min, idx_max>>
          /\ segment' = Plain(SliceExclusive(idx_min, idx_max, nsamp))
    /\ sel' = <<xmin, xmax>>
    /\ wasPlaying' = (sdOwner # NoPlayback)
    /\ calls' = <<"play">>
    /\ sdOwner' = PlaybackAfter(FALSE, errPlay)
    /\ escaped' = errPlay
    /\ ntime' = nsamp
    /\ UNCHANGED <<restVars, playVars, page, nsamp, ctlVars, full_audio, segOf>>

\* Record.setup_span_selector.on_select: no sd.stop(), sd.play in try/except
Record_on_select(xmin, xmax, errPlay) ==
    /\ page = "Record"
    /\ nsamp > 1
    /\ LET time == TimeAxis(nsamp)
           idx_min == argmax_ge(time, nsamp, xmin)
           idx_max == argmax_ge(time, nsamp, xmax)
       IN /\ idx' = <<idx_min, idx_max>>
          /\ segment' = Plain(SliceExclusive(idx_min, idx_max, nsamp))
    /\ sel' = <<xmin, xmax>>
    /\ wasPlaying' = (sdOwner # NoPlayback)
    /\ calls' = <<"play">>
    /\ sdOwner' = PlaybackAfter(FALSE, errPlay)
    /\ escaped' = FALSE
    /\ ntime' = nsamp
    /\ UNCHANGED <<restVars, playVars, page, nsamp, ctlVars, full_audio, segOf>>

\* ------------------------------------------------------- control windows

\* MAX_WINDOWS of inputLoad.py
MAX_WINDOWS == 5

\* the pages whose objects keep a control_windows list
WinSources == {"Load", "Record", "FreeAdd", "Noise"}
WinIds == 1..MaxWin

\* nothing was handed to a ControlMenu yet
NoHandoff == <<0, 0, 1, 0>>

\* duration = len(audio_to_load) / self.fs
LengthOverRate(n, rate) == <<n, n, rate, rate>>

\* no control window was made; b windows will be followed
NoWindows(b) ==
    /\ control_windows = [s \in WinSources |-> << >>]
    /\ winState = [w \in WinIds |-> "none"]
    /\ plotOpen = [w \in WinIds |-> FALSE]
    /\ closeLog = << >>
    /\ nWin = 0
    /\ winBudget = b
    /\ evicted = 0
    /\ mainClosed = FALSE
    /\ handoff = NoHandoff

\* ControlMenu(title, fs, audio, duration, controller) is created with the
\* audio, duration and rate of args, appended to the control_windows of the
\* page (kept: the list it is appended to) and shown; closedNow are the
\* windows the handler closed before.  A window made after winBudget windows
\* is not followed
NewControlWindow(src, kept, closedNow, args) ==
    IF nWin < winBudget
    THEN LET w == nWin + 1 IN
         /\ nWin' = w
         /\ handoff' = args
         /\ control_windows' = [control_windows EXCEPT ![src] = Append(kept, w)]
         /\ winState' = [v \in WinIds |->
                           IF v = w THEN "open"
                           ELSE IF v \in closedNow /\ winState[v] = "open"
                                THEN "closed"
                                ELSE winState[v]]
    ELSE UNCHANGED <<nWin, control_windows, winState, handoff>>

\* ------------------------------------------------ generation and hand-off

GenPages == {"FreeAdd", "Noise", "PureTone"}

\* self.fs of FreeAdditionPureTones, default_values['fs'] of PureTone
FreeAddRate == 48000
PureToneRate == 44100

\* the duration settings: the sliders start at 1 (0.01 s)
Durations == 1..MaxDur

\* FreeAdd is also given 0.09 s, the shortest setting whose signal is longer
\* than four fades of 20 ms
FreeAddDurations == Durations \cup {9}

\* a text of the Noise sample-rate field: an integer, or one int() rejects;
\* the texts tried are a negative rate, 0, rates that give fewer than one
\* sample for the shortest durations, and 200 Hz
IntText(v) == <<"int", v>>
BadText == <<"text", 0>>
FsTexts == {BadText} \cup {IntText(v) : v \in {0 - 100, 0, 50, 200}}

\* samples = int(duration * fs), the duration in hundredths of a second:
\* int() rounds toward zero
Samples(d, rate) ==
    IF d * rate >= 0 THEN (d * rate) \div 100
    ELSE 0 - ((0 - d * rate) \div 100)

\* a signal of n samples as it was generated
Generated(n) == Plain([k \in 1..n |-> k - 1])

\* whose samples a stored segment holds once the base signal is made again
AfterRegeneration(of) == IF of = "none" THEN "none" ELSE "previous"

\* no ControlMenu was created yet
NotLoaded == <<"none", "none">>

\* Noise.update_duration: the value is stored, nothing is generated
update_duration(d) ==
    /\ page = "Noise"
    /\ dur' = d
    /\ UNCHANGED <<restVars, playVars, sdOwner, prevVars, fs_entry, fs, gen, outcome,
                   loaded, ntime, full_audio, segOf>>

\* plotFAPT with addLoadButton, d the value of the duration slider: a new
\* signal and its time axis; self.selectedAudio and self.selected_span are
\* left as they are
Replot(d) ==
    /\ dur' = d
    /\ LET samples == Samples(d, fs)
       IN /\ nsamp' = samples
          /\ ntime' = samples
          /\ full_audio' = Generated(samples)
    /\ gen' = <<d, fs>>
    /\ outcome' = "ok"
    /\ segOf' = AfterRegeneration(segOf)

\* the Plot button of the additive generator, d the value of the duration
\* slider
plotFAPT(d) ==
    /\ page = "FreeAdd"
    /\ Replot(d)
    /\ UNCHANGED <<restVars, playVars, sdOwner, page, sel, idx, segment, wasPlaying,
                   calls, escaped, fs_entry, fs, loaded>>

\* playPianoNote: a key of the piano window is struck.  notesHarmonics
\* writes the ladder of the note to the tone controls and plots the signal
\* again; then the note is written to an sd.OutputStream of its own, on the
\* UI thread, until it is played; sd.stop is not called.  A device error is
\* caught and printed.
playPianoNote(i, note_value, err) ==
    /\ Usable(i)
    /\ piano[i]
    /\ freq_spinboxes' = [freq_spinboxes EXCEPT ![i] =
                            LadderFreqs(note_value, octave_spinbox[i])]
    /\ amp_sliders' = [amp_sliders EXCEPT ![i] = LadderAmps]
    /\ struck' = <<i, note_value, octave_spinbox[i]>>
    /\ Replot(dur)
    /\ pianoStream' = ~err
    /\ UNCHANGED <<frames, shown, audio_queue, audio_thread, piano, pianoOpen,
                   closed, sdOwner, enq, handed, failed, lastExit, late, nReq,
                   page, sel, idx, segment, wasPlaying, calls, escaped,
                   fs_entry, fs, loaded, octave_spinbox, piano_btn,
                   pianoError, pageVars>>

\* FreeAdditionPureTones.load_to_controller: the stored segment when it has
\* more than one sample, the full signal otherwise
FreeAdd_load_to_controller ==
    /\ page = "FreeAdd"
    /\ ~mainClosed
    /\ loaded' = IF Len(segment) > 1 THEN <<"segment", segOf>>
                 ELSE <<"full", "current">>
    /\ NewControlWindow("FreeAdd", control_windows["FreeAdd"], {},
                        IF Len(segment) > 1
                        THEN LengthOverRate(Len(segment), fs)
                        ELSE <<Len(full_audio), gen[1], 100, fs>>)
    /\ UNCHANGED <<playVars, sdOwner, prevVars, dur, fs_entry, fs, gen,
                   outcome, ntime, full_audio, segOf, toneVars, plotOpen,
                   closeLog, winBudget, evicted, mainClosed,
                   recVars, tunerVars>>

\* the body of Noise.plot_noise, text the content of the sample-rate field.
\* int() of the field, the 48000 limit, then self.time, the noise and
\* self.audio in this order: np.linspace raises for a negative count, the
\* noise generation or max() of an empty array raises for a count of 0 after
\* self.time was assigned.  raise1: whether the noise library raises for a
\* count of 1.
plot_noise(text, raise1) ==
    /\ page = "Noise"
    /\ IF text[1] # "int"
       THEN /\ fs_entry' = text
            /\ outcome' = "rejected"
            /\ UNCHANGED <<fs, ntime, nsamp, full_audio, gen, segOf>>
       ELSE IF text[2] > 48000
       THEN /\ fs' = 48000
            /\ fs_entry' = IntText(48000)
            /\ outcome' = "rejected"
            /\ UNCHANGED <<ntime, nsamp, full_audio, gen, segOf>>
       ELSE LET samples == Samples(dur, text[2])
            IN /\ fs' = text[2]
               /\ fs_entry' = text
               /\ IF samples < 0
                  THEN /\ outcome' = "raised"
                       /\ UNCHANGED <<ntime, nsamp, full_audio, gen, segOf>>
                  ELSE /\ ntime' = samples
                       /\ IF samples = 0 \/ (samples = 1 /\ raise1)
                          THEN /\ outcome' = "raised"
                               /\ UNCHANGED <<nsamp, full_audio, gen, segOf>>
                          ELSE /\ nsamp' = samples
                               /\ full_audio' = Generated(samples)
                               /\ gen' = <<dur, text[2]>>
                               /\ outcome' = "ok"
                               /\ segOf' = AfterRegeneration(segOf)

\* plot_button.clicked (Noise)
Plot(text) ==
    /\ \E raise1 \in BOOLEAN : plot_noise(text, raise1)
    /\ UNCHANGED <<restVars, playVars, sdOwner, page, sel, idx, segment, wasPlaying,
                   calls, escaped, dur, loaded>>

\* Noise.load_to_controller: plot_noise() first, then the stored segment
\* when it has more than one sample, the full signal otherwise, with
\* duration = self.duration and fs = self.fs; an exception of plot_noise is
\* caught and nothing is handed off
Noise_load_to_controller(text) ==
    /\ ~mainClosed
    /\ \E raise1 \in BOOLEAN : plot_noise(text, raise1)
    /\ loaded' = IF outcome' = "raised" THEN loaded
                 ELSE IF Len(segment) > 1 THEN <<"segment", segOf'>>
                 ELSE <<"full", "current">>
    /\ IF outcome' = "raised"
       THEN UNCHANGED <<nWin, control_windows, winState, handoff>>
       ELSE NewControlWindow("Noise", control_windows["Noise"], {},
                             <<IF Len(segment) > 1 THEN Len(segment)
                               ELSE Len(full_audio'), dur, 100, fs'>>)
    /\ UNCHANGED <<playVars, sdOwner, page, sel, idx, segment, wasPlaying,
                   calls, escaped, dur, toneVars, plotOpen, closeLog,
                   winBudget, evicted, mainClosed,
                   recVars, tunerVars>>

\* PureTone.update_plot -> plotPureTone: every change of the duration slider
\* generates the tone again
update_plot(d) ==
    /\ page = "PureTone"
    /\ d # dur
    /\ dur' = d
    /\ LET samples == Samples(d, fs)
       IN /\ nsamp' = samples
          /\ full_audio' = Generated(samples)
    /\ gen' = <<d, fs>>
    /\ outcome' = "ok"
    /\ UNCHANGED <<restVars, playVars, sdOwner, page, sel, idx, segment, wasPlaying,
                   calls, escaped, fs_entry, fs, loaded, ntime, segOf>>

\* ------------------------------------- control windows of the Load page

AtLimit_over(n) == n > MAX_WINDOWS

\* len(self.control_windows) >= MAX_WINDOWS
AtLimit(n) == n >= MAX_WINDOWS

\* self.selectedAudio.shape == (1,): the np.empty(1) of Load.__init__ (no
\* selection handler ran yet) or a selection of one sample
Load_shape1 == calls = << >> \/ Len(segment) = 1

\* Load.addLoadButton.on_load: at the limit the oldest window is taken from
\* the list and closed; the segment or the whole file is handed to a new
\* ControlMenu, which is appended to the list and shown
on_load ==
    /\ page = "Load"
    /\ ~mainClosed
    /\ nWin < winBudget
    /\ LET tracked == control_windows["Load"]
           limit == AtLimit(Len(tracked))
       IN /\ NewControlWindow("Load",
                              IF limit THEN Tail(tracked) ELSE tracked,
                              IF limit THEN {Head(tracked)} ELSE {},
                              LengthOverRate(IF Load_shape1
                                             THEN Len(full_audio)
                                             ELSE Len(segment), fs))
          /\ evicted' = IF limit THEN Head(tracked) ELSE 0
    /\ loaded' = IF Load_shape1 THEN <<"full", "current">>
                 ELSE <<"segment", segOf>>
    /\ UNCHANGED <<playVars, sdOwner, prevVars, dur, fs_entry, fs, gen,
                   outcome, ntime, full_audio, segOf, toneVars, plotOpen,
                   closeLog, winBudget, mainClosed,
                   recVars, tunerVars>>

\* the ControlMenu of window w opens a plot window (ctrl_window.plot_windows)
open_plot_window(w) ==
    /\ winState[w] = "open"
    /\ ~plotOpen[w]
    /\ plotOpen' = [plotOpen EXCEPT ![w] = TRUE]
    /\ UNCHANGED <<playVars, sdOwner, prevVars, genVars, toneVars,
                   control_windows, winState, closeLog, nWin, winBudget,
                   evicted, mainClosed, handoff,
                   recVars, tunerVars>>

\* a list without window w
Without(list, w) == SelectSeq(list, LAMBDA v : v # w)

\* the user closes control window w.  deleted: the window is destroyed, its
\* destroyed signal runs handle_close / cleanup, which takes it from the
\* list of the object that made it; else it stays in the list, closed
close_control_window(w, deleted) ==
    /\ winState[w] = "open"
    /\ winState' = [winState EXCEPT ![w] = IF deleted THEN "deleted"
                                           ELSE "closed"]
    /\ control_windows' =
          IF deleted
          THEN [s \in WinSources |-> Without(control_windows[s], w)]
          ELSE control_windows
    /\ UNCHANGED <<playVars, sdOwner, prevVars, genVars, toneVars, plotOpen,
                   closeLog, nWin, winBudget, evicted, mainClosed, handoff,
                   recVars, tunerVars>>

\* Start.get_all_open_windows: the lists of frames['Load'] and
\* frames['Record'], and the plot windows of the windows in them
get_all_open_windows == control_windows["Load"] \o control_windows["Record"]
get_plot_windows == SelectSeq(get_all_open_windows, LAMBDA w : plotOpen[w])

\* Start.close_all_windows: close() and deleteLater() for the collected plot
\* windows, then for the collected control windows; the lists of Load and
\* Record are cleared
close_all_windows ==
    /\ LET ctrl == get_all_open_windows
           plots == get_plot_windows
           inCtrl(w) == \E k \in 1..Len(ctrl) : ctrl[k] = w
       IN /\ closeLog' = [k \in 1..Len(plots) |-> <<"plot", plots[k]>>] \o
                         [k \in 1..Len(ctrl) |-> <<"control", ctrl[k]>>]
          /\ winState' = [w \in WinIds |->
                            IF inCtrl(w) THEN "deleted" ELSE winState[w]]
          /\ plotOpen' = [w \in WinIds |->
                            IF inCtrl(w) THEN FALSE ELSE plotOpen[w]]
    /\ control_windows' = [s \in WinSources |->
                             IF s \in {"Load", "Record"} THEN << >>
                             ELSE control_windows[s]]

\* Start.closeEvent: the user is asked; on Yes close_all_windows runs and
\* the close of the main window is accepted, on No nothing happens
Start_closeEvent(yes) ==
    /\ ~mainClosed
    /\ IF yes
       THEN /\ close_all_windows
            /\ mainClosed' = TRUE
       ELSE UNCHANGED <<closeLog, winState, plotOpen, control_windows,
                        mainClosed>>
    /\ UNCHANGED <<playVars, sdOwner, prevVars, genVars, toneVars, nWin,
                   winBudget, evicted, handoff,
                   recVars, tunerVars>>

\* the additive generator's page was opened once: the object is constructed
\* (queue empty, worker thread started and waiting) and shown, its signal
\* plotted with the duration slider at 0.01 s
Init ==
    /\ frames = [p \in AllPages |-> IF p = Tuner THEN 0 ELSE 1]
    /\ shown = FA
    /\ audio_queue = [i \in Insts |-> << >>]
    /\ audio_thread = [i \in Insts |-> IF i = 1 THEN NewThread ELSE "none"]
    /\ piano = [i \in Insts |-> FALSE]
    /\ pianoOpen = [i \in Insts |-> FALSE]
    /\ closed = [i \in Insts |-> FALSE]
    /\ sdOwner = NoPlayback
    /\ pianoStream = FALSE
    /\ enq = [i \in Insts |-> << >>]
    /\ handed = [i \in Insts |-> << >>]
    /\ failed = {}
    /\ lastExit = [i \in Insts |-> "none"]
    /\ late = {}
    /\ nReq = 0
    /\ page = "FreeAdd"
    /\ dur = 1
    /\ fs = FreeAddRate
    /\ fs_entry = IntText(fs)
    /\ gen = <<dur, fs>>
    /\ nsamp = Samples(dur, fs)
    /\ ntime = nsamp
    /\ full_audio = Generated(nsamp)
    /\ outcome = "ok"
    /\ segOf = "none"
    /\ loaded = NotLoaded
    /\ sel = <<0, 0>>
    /\ idx = <<0, 0>>
    /\ segment = << >>
    /\ wasPlaying = FALSE
    /\ calls = << >>
    /\ escaped = FALSE
    /\ InitTones
    /\ NoWindows(0)
    /\ NoRecording
    /\ NoTuner

Next ==
    \/ \E i \in Insts : Enqueue(i)
    \/ \E i \in Insts : WorkerStep(i)
    \/ \E i \in Insts : closeEvent(i)
    \/ \E i \in Insts : togglePiano(i)
    \/ \E i \in Insts : on_close(i)
    \/ \E i \in Insts, err \in BOOLEAN : playPianoNote(i, KeyA, err)
    \/ PianoNoteDone
    \/ \E i \in Insts, errStop, errPlay \in BOOLEAN :
          onselect_playback(i, errStop, errPlay)
    \/ PreviewEnds

Spec == Init /\ [][Next]_vars

\* Start.__init__: the Info page is created and shown, no other page exists
InitPages ==
    /\ frames = [p \in AllPages |-> IF p = "Info" THEN 1 ELSE 0]
    /\ shown = "Info"
    /\ audio_queue = [i \in Insts |-> << >>]
    /\ audio_thread = [i \in Insts |-> "none"]
    /\ piano = [i \in Insts |-> FALSE]
    /\ pianoOpen = [i \in Insts |-> FALSE]
    /\ closed = [i \in Insts |-> FALSE]
    /\ sdOwner = NoPlayback
    /\ pianoStream = FALSE
    /\ enq = [i \in Insts |-> << >>]
    /\ handed = [i \in Insts |-> << >>]
    /\ failed = {}
    /\ lastExit = [i \in Insts |-> "none"]
    /\ late = {}
    /\ nReq = 0
    /\ page = "none"
    /\ nsamp = 0
    /\ dur = 0
    /\ fs = 0
    /\ fs_entry = IntText(0)
    /\ gen = <<0, 0>>
    /\ ntime = 0
    /\ full_audio = << >>
    /\ outcome = "none"
    /\ segOf = "none"
    /\ loaded = NotLoaded
    /\ sel = <<0, 0>>
    /\ idx = <<0, 0>>
    /\ segment = << >>
    /\ wasPlaying = FALSE
    /\ calls = << >>
    /\ escaped = FALSE
    /\ InitTones
    /\ NoWindows(0)
    /\ NoRecording
    /\ NoTuner

\* the pages of the main window: menu selections, and what the user and the
\* worker threads do with the additive generator's objects
NextPages ==
    \/ \E p \in Pages : initialize_frame(p, TRUE, TRUE, TRUE)
    \/ \E i \in Insts : closeEvent(i)
    \/ \E i \in Insts : WorkerGet(i, FALSE)
    \/ \E i \in Insts : togglePiano(i)
    \/ \E i \in Insts : on_close(i)

PageSpec == InitPages /\ [][NextPages]_vars

\* a page with a plotted signal of n samples (0.01 s at 100 * n samples per
\* second), nothing selected, nothing playing
InitPreview ==
    /\ frames = [p \in AllPages |-> IF p = "Info" THEN 1 ELSE 0]
    /\ shown = "Info"
    /\ audio_queue = [i \in Insts |-> << >>]
    /\ audio_thread = [i \in Insts |-> "none"]
    /\ piano = [i \in Insts |-> FALSE]
    /\ pianoOpen = [i \in Insts |-> FALSE]
    /\ closed = [i \in Insts |-> FALSE]
    /\ sdOwner = NoPlayback
    /\ pianoStream = FALSE
    /\ enq = [i \in Insts |-> << >>]
    /\ handed = [i \in Insts |-> << >>]
    /\ failed = {}
    /\ lastExit = [i \in Insts |-> "none"]
    /\ late = {}
    /\ nReq = 0
    /\ page \in Handlers
    /\ nsamp \in 2..MaxLen
    /\ dur = 1
    /\ fs = 100 * nsamp
    /\ fs_entry = IntText(fs)
    /\ gen = <<dur, fs>>
    /\ ntime = nsamp
    /\ full_audio = Generated(nsamp)
    /\ outcome = "ok"
    /\ segOf = "none"
    /\ loaded = NotLoaded
    /\ sel = <<0, 0>>
    /\ idx = <<0, 0>>
    /\ segment = << >>
    /\ wasPlaying = FALSE
    /\ calls = << >>
    /\ escaped = FALSE
    /\ InitTones
    /\ NoWindows(0)
    /\ NoRecording
    /\ NoTuner

Selections == {s \in Coords(nsamp) \X Coords(nsamp) : s[1] <= s[2]}

NextPreview ==
    \/ \E s \in Selections, e1, e2 \in BOOLEAN : onselect(s[1], s[2], e1, e2)
    \/ \E s \in Selections, e1, e2 \in BOOLEAN :
          PureTone_on_select_region(s[1], s[2], e1, e2)
    \/ \E s \in Selections, e1, e2 \in BOOLEAN :
          SquareWave_on_select_region(s[1], s[2], e1, e2)
    \/ \E s \in Selections, e \in BOOLEAN : listen_fragment(s[1], s[2], e)
    \/ \E s \in Selections, e \in BOOLEAN : Load_on_select(s[1], s[2], e)
    \/ \E s \in Selections, e \in BOOLEAN : Record_on_select(s[1], s[2], e)
    \/ PreviewEnds

PreviewSpec == InitPreview /\ [][NextPreview]_vars

\* a generator page after a signal was generated with duration dur: nothing
\* selected, nothing playing, nothing handed off.  The Noise page has the
\* rate 200 Hz entered.
InitGen ==
    /\ frames = [p \in AllPages |-> IF p = "Info" THEN 1 ELSE 0]
    /\ shown = "Info"
    /\ audio_queue = [i \in Insts |-> << >>]
    /\ audio_thread = [i \in Insts |-> "none"]
    /\ piano = [i \in Insts |-> FALSE]
    /\ pianoOpen = [i \in Insts |-> FALSE]
    /\ closed = [i \in Insts |-> FALSE]
    /\ sdOwner = NoPlayback
    /\ pianoStream = FALSE
    /\ enq = [i \in Insts |-> << >>]
    /\ handed = [i \in Insts |-> << >>]
    /\ failed = {}
    /\ lastExit = [i \in Insts |-> "none"]
    /\ late = {}
    /\ nReq = 0
    /\ page \in GenPages
    /\ dur \in Durations
    /\ fs = CASE page = "FreeAdd" -> FreeAddRate
              [] page = "PureTone" -> PureToneRate
              [] page = "Noise" -> 200
    /\ fs_entry = IntText(fs)
    /\ gen = <<dur, fs>>
    /\ nsamp = Samples(dur, fs)
    /\ ntime = nsamp
    /\ full_audio = Generated(nsamp)
    /\ outcome = "ok"
    /\ segOf = "none"
    /\ loaded = NotLoaded
    /\ sel = <<0, 0>>
    /\ idx = <<0, 0>>
    /\ segment = << >>
    /\ wasPlaying = FALSE
    /\ calls = << >>
    /\ escaped = FALSE
    /\ InitTones
    /\ NoWindows(0)
    /\ NoRecording
    /\ NoTuner

\* the selection coordinates tried on a generated signal: the start of the
\* plot, samples 3 and 7, and the end of the plot
Marks(n) == {0, 3 * Res, 7 * Res, n * Res} \cap Coords(n)
GenSelections == {s \in Marks(nsamp) \X Marks(nsamp) : s[1] <= s[2]}

NextGen ==
    \/ \E d \in Durations : update_duration(d)
    \/ \E d \in FreeAddDurations : plotFAPT(d)
    \/ FreeAdd_load_to_controller
    \/ \E text \in FsTexts \cup {fs_entry} : Plot(text)
    \/ \E text \in FsTexts \cup {fs_entry} : Noise_load_to_controller(text)
    \/ \E d \in Durations : update_plot(d)
    \/ \E s \in GenSelections : onselect(s[1], s[2], FALSE, FALSE)
    \/ \E s \in GenSelections : listen_fragment(s[1], s[2], FALSE)
    \/ \E s \in GenSelections :
          PureTone_on_select_region(s[1], s[2], FALSE, FALSE)

GenSpec == InitGen /\ [][NextGen]_vars

\* the worker threads run, and a playback that was started plays to its end
FairSpec ==
    /\ Spec
    /\ \A i \in Insts : WF_vars(WorkerStep(i))
    /\ WF_vars(PreviewEnds)

\* the piano of the additive generator: the Piano button, the window's close
\* box, the octave buttons and all keys
NextPiano ==
    \/ \E i \in Insts : togglePiano(i)
    \/ \E i \in Insts : on_close(i)
    \/ \E i \in Insts : decrease_octave(i)
    \/ \E i \in Insts : increase_octave(i)
    \/ \E i \in Insts, k \in Keys : playPianoNote(i, k, FALSE)
    \/ PianoNoteDone

PianoSpec == Init /\ [][NextPiano]_vars

\* no additive generator object is in use: nothing queued, nothing playing
Idle ==
    /\ frames = [p \in AllPages |-> IF p = "Info" THEN 1 ELSE 0]
    /\ shown = "Info"
    /\ audio_queue = [i \in Insts |-> << >>]
    /\ audio_thread = [i \in Insts |-> "none"]
    /\ piano = [i \in Insts |-> FALSE]
    /\ pianoOpen = [i \in Insts |-> FALSE]
    /\ closed = [i \in Insts |-> FALSE]
    /\ sdOwner = NoPlayback
    /\ pianoStream = FALSE
    /\ enq = [i \in Insts |-> << >>]
    /\ handed = [i \in Insts |-> << >>]
    /\ failed = {}
    /\ lastExit = [i \in Insts |-> "none"]
    /\ late = {}
    /\ nReq = 0

\* a page with the signal `rate' gives in 0.01 s plotted, nothing selected,
\* nothing handed off
Plotted(p, rate) ==
    /\ page = p
    /\ dur = 1
    /\ fs = rate
    /\ fs_entry = IntText(fs)
    /\ gen = <<dur, fs>>
    /\ nsamp = Samples(dur, fs)
    /\ ntime = nsamp
    /\ full_audio = Generated(nsamp)
    /\ outcome = "ok"
    /\ segOf = "none"
    /\ loaded = NotLoaded
    /\ sel = <<0, 0>>
    /\ idx = <<0, 0>>
    /\ segment = << >>
    /\ wasPlaying = FALSE
    /\ calls = << >>
    /\ escaped = FALSE

\* the Load page with a file of 3 samples loaded, no control window yet
InitLoad ==
    /\ Idle
    /\ Plotted("Load", 300)
    /\ InitTones
    /\ NoWindows(MaxWin)
    /\ NoRecording
    /\ NoTuner

\* the selections tried on the file: none, two samples, one sample
LoadSelections == {<<0, 0>>, <<0, 2 * Res>>, <<Res, 2 * Res>>}

NextLoad ==
    \/ on_load
    \/ \E w \in WinIds, deleted \in BOOLEAN : close_control_window(w, deleted)
    \/ \E s \in LoadSelections : Load_on_select(s[1], s[2], FALSE)
    \/ PreviewEnds

LoadSpec == InitLoad /\ [][NextLoad]_vars

\* one of the pages that hand off to control windows, with its signal
\* plotted (Load: 3 samples, FreeAdd: 0.01 s, Noise: 0.01 s at 200 Hz)
InitWindows ==
    /\ Idle
    /\ \/ Plotted("Load", 300)
       \/ Plotted("FreeAdd", FreeAddRate)
       \/ Plotted("Noise", 200)
    /\ InitTones
    /\ NoWindows(MaxOpen)
    /\ NoRecording
    /\ NoTuner

NextWindows ==
    \/ on_load
    \/ FreeAdd_load_to_controller
    \/ Noise_load_to_controller(fs_entry)
    \/ \E w \in WinIds : open_plot_window(w)
    \/ \E w \in WinIds, deleted \in BOOLEAN : close_control_window(w, deleted)
    \/ \E yes \in BOOLEAN : Start_closeEvent(yes)

WindowSpec == InitWindows /\ [][NextWindows]_vars

\* the Noise page with 0.01 s at 400 Hz plotted (4 samples)
InitNoise ==
    /\ Idle
    /\ Plotted("Noise", 400)
    /\ InitTones
    /\ NoWindows(MaxOpen)
    /\ NoRecording
    /\ NoTuner

\* the rates entered on it: one above the limit of 48000 Hz, and 400 Hz
NoiseTexts == {IntText(48001), IntText(400)}

\* the selections tried: a click, the first two samples, samples 2 to 4
NoiseSelections == {<<0, 0>>, <<0, Res>>, <<Res, 3 * Res>>}

NextNoise ==
    \/ \E d \in Durations : update_duration(d)
    \/ \E text \in NoiseTexts \cup {fs_entry} : Plot(text)
    \/ \E text \in NoiseTexts \cup {fs_entry} : Noise_load_to_controller(text)
    \/ \E s \in NoiseSelections : listen_fragment(s[1], s[2], FALSE)
    \/ PreviewEnds

NoiseSpec == InitNoise /\ [][NextNoise]_vars

\* ---------------------------------------------------- Record page (actions)

\* the recording threads that run after stop_recording dealt with thread t:
\* stop() clears the thread's flag, wait(2000) lets run() return, and a
\* thread that did not return in time is terminated
ThreadsAfterStop_detached(threads, t) == threads
ThreadsAfterStop(threads, t) == threads \ {t}

\* Record.start_recording, the slot of the Record button (a disabled button
\* emits no click): without microphone access (mic) nothing happens;
\* otherwise the buttons are switched, isrecording is set, frames is reset,
\* both timers are started and a new SoundDeviceRecordingThread is started.
\* None of the Qt calls in the try block raises
start_recording(mic) ==
    /\ record_button
    /\ nRec < MaxRec
    /\ mic
    /\ record_button' = FALSE
    /\ stop_button' = TRUE
    /\ isrecording' = TRUE
    /\ rec_frames' = << >>
    /\ auto_stop_timer' = TRUE
    /\ nRec' = nRec + 1
    /\ recording_thread' = nRec + 1
    /\ running_threads' = running_threads \cup {nRec + 1}
    /\ UNCHANGED <<errPending, scheduled, captured, processedOf,
                   stoppedIdle>>
    /\ UNCHANGED <<playVars, sdOwner, prevVars, genVars, toneVars, winVars,
                   tunerVars>>

\* the thread's stream callback emits frames_ready and Record.handle_frames
\* receives it: the frame is appended while isrecording is set
handle_frames(t) ==
    /\ t \in running_threads
    /\ Len(rec_frames) < MaxFrames
    /\ isrecording
    /\ rec_frames' = Append(rec_frames, t)
    /\ UNCHANGED <<isrecording, record_button, stop_button, recording_thread,
                   running_threads, auto_stop_timer, errPending, scheduled,
                   captured, processedOf, nRec, stoppedIdle>>
    /\ UNCHANGED <<playVars, sdOwner, prevVars, genVars, toneVars, winVars,
                   tunerVars>>

\* SoundDeviceRecordingThread.run: an exception of the input stream ends
\* run() and emits recording_error, which is queued for the UI thread
recording_error(t) ==
    /\ t \in running_threads
    /\ running_threads' = running_threads \ {t}
    /\ errPending' = errPending \cup {t}
    /\ UNCHANGED <<isrecording, record_button, stop_button, rec_frames,
                   recording_thread, auto_stop_timer, scheduled, captured,
                   processedOf, nRec, stoppedIdle>>
    /\ UNCHANGED <<playVars, sdOwner, prevVars, genVars, toneVars, winVars,
                   tunerVars>>

\* the body of Record.stop_recording; pending are the recording_error
\* signals still queued.  Not recording: it returns at once (stoppedIdle
\* flips to record the call).  Recording: isrecording is cleared, the
\* buttons are switched back, both timers are stopped, the thread is
\* stopped and forgotten, and process_recording is scheduled 100 ms later
\* with QTimer.singleShot.  exitErr: the thread's stream raises while run()
\* is left, which emits recording_error
StopRecording(exitErr, pending) ==
    IF ~isrecording
    THEN /\ stoppedIdle' = ~stoppedIdle
         /\ errPending' = pending
         /\ UNCHANGED <<isrecording, record_button, stop_button, rec_frames,
                        recording_thread, running_threads, auto_stop_timer,
                        scheduled, captured>>
    ELSE /\ isrecording' = FALSE
         /\ record_button' = TRUE
         /\ stop_button' = FALSE
         /\ auto_stop_timer' = FALSE
         /\ running_threads' = ThreadsAfterStop(running_threads,
                                                recording_thread)
         /\ recording_thread' = 0
         /\ errPending' = IF exitErr /\ recording_thread \in running_threads
                          THEN pending \cup {recording_thread}
                          ELSE pending
         /\ scheduled' = scheduled \cup {nRec}
         /\ captured' = [captured EXCEPT ![nRec] = rec_frames]
         /\ UNCHANGED <<rec_frames, stoppedIdle>>

\* Record.stop_recording as the slot of the Stop button (by = "click": the
\* button is enabled only while recording) and of auto_stop_timer (by =
\* "timer": the single-shot timer expires)
stop_recording(by, exitErr) ==
    /\ \/ by = "click" /\ stop_button
       \/ by = "timer" /\ auto_stop_timer
    /\ StopRecording(exitErr, errPending)
    /\ UNCHANGED <<processedOf, nRec>>
    /\ UNCHANGED <<playVars, sdOwner, prevVars, genVars, toneVars, winVars,
                   tunerVars>>

\* Record.handle_recording_error, the slot of a queued recording_error: a
\* message box, then stop_recording.  What the message box's event loop
\* lets run meanwhile can equally run before this step
handle_recording_error(t, exitErr) ==
    /\ t \in errPending
    /\ StopRecording(exitErr, errPending \ {t})
    /\ UNCHANGED <<processedOf, nRec>>
    /\ UNCHANGED <<playVars, sdOwner, prevVars, genVars, toneVars, winVars,
                   tunerVars>>

\* Record.process_recording, the deferred call scheduled by the stop of
\* recording r: it works on self.frames as they are when it runs (with no
\* frames it returns, otherwise it joins and plots them)
process_recording(r) ==
    /\ r \in scheduled
    /\ scheduled' = scheduled \ {r}
    /\ processedOf' = [processedOf EXCEPT ![r] = <<TRUE, rec_frames>>]
    /\ UNCHANGED <<isrecording, record_button, stop_button, rec_frames,
                   recording_thread, running_threads, auto_stop_timer,
                   errPending, captured, nRec, stoppedIdle>>
    /\ UNCHANGED <<playVars, sdOwner, prevVars, genVars, toneVars, winVars,
                   tunerVars>>

\* the Record page as constructed: nothing recorded, nothing plotted
InitRecord ==
    /\ Idle
    /\ page = "Record"
    /\ nsamp = 0
    /\ dur = 0
    /\ fs = 0
    /\ fs_entry = IntText(0)
    /\ gen = <<0, 0>>
    /\ ntime = 0
    /\ full_audio = << >>
    /\ outcome = "none"
    /\ segOf = "none"
    /\ loaded = NotLoaded
    /\ sel = <<0, 0>>
    /\ idx = <<0, 0>>
    /\ segment = << >>
    /\ wasPlaying = FALSE
    /\ calls = << >>
    /\ escaped = FALSE
    /\ InitTones
    /\ NoWindows(0)
    /\ NoRecording
    /\ NoTuner

\* the Record page: clicks on Record and Stop, the auto-stop timer, the
\* recording thread's frames and errors, and the deferred processing
NextRecord ==
    \/ start_recording(TRUE)
    \/ \E t \in 1..MaxRec : handle_frames(t)
    \/ \E t \in 1..MaxRec : recording_error(t)
    \/ \E by \in {"click", "timer"}, exitErr \in BOOLEAN :
          stop_recording(by, exitErr)
    \/ \E t \in 1..MaxRec, exitErr \in BOOLEAN :
          handle_recording_error(t, exitErr)
    \/ \E r \in 1..MaxRec : process_recording(r)

RecordSpec == InitRecord /\ [][NextRecord]_vars

\* the main window with the Info page shown: any sequence of selections of
\* the Info, additive generator and Tuner pages
NextTuner ==
    \E p \in AllPages, mic, opens, lib \in BOOLEAN :
        initialize_frame(p, mic, opens, lib)

TunerSpec == InitPages /\ [][NextTuner]_vars

\* ------------------------------------------------------------------ claims

IsPrefix(a, b) == Len(a) <= Len(b) /\ \A k \in 1..Len(a) : a[k] = b[k]
Count(seq, x) == Cardinality({k \in 1..Len(seq) : seq[k] = x})
IsRequest(x) == x # None
RequestsOf(seq) == SelectSeq(seq, IsRequest)
\* the requests put on a queue before its first sentinel
BeforeSentinel(seq) ==
    {seq[k] : k \in {m \in 1..Len(seq) : \A l \in 1..m : seq[l] # None}}

\* C1: each worker hands the requests of its queue to the device in the
\* order they were enqueued, and while a playback it started is still
\* playing it is inside that playback call, not dequeuing the next request
C1_FifoNoOverlap ==
    \A i \in Insts :
        /\ IsPrefix(handed[i], RequestsOf(enq[i]))
        /\ sdOwner = Worker(i) => audio_thread[i] = "playing"

C1_Witness ==
    \E i \in Insts : Len(handed[i]) = MaxReq /\ sdOwner = Worker(i)

\* C2: the module-level sd playback (queue worker or span preview) and the
\* piano's own output stream are never active at the same time
C2_OneStreamAtATime == ~(sdOwner # NoPlayback /\ pianoStream)

\* C4: a worker that has stopped consumed the sentinel, and every request
\* put on its queue before the sentinel was handed to the device, also
\* those that follow a request whose playback raised
C4_ErrorDoesNotStopWorker ==
    \A i \in Insts :
        audio_thread[i] = "stopped" =>
            /\ lastExit[i] = "sentinel"
            /\ \A r \in BeforeSentinel(enq[i]) : Count(handed[i], r) = 1

C4_Witness ==
    \E i \in Insts :
        /\ audio_thread[i] = "stopped"
        /\ Len(handed[i]) >= 2
        /\ handed[i][1] \in failed
        /\ handed[i][2] \notin failed

\* C5: once the sentinel is on a queue, the worker of that queue
\* eventually stops
C5_SentinelStopsWorker ==
    \A i \in Insts :
        (Count(audio_queue[i], None) > 0) ~> (audio_thread[i] = "stopped")

C5_Witness ==
    \E i \in Insts :
        /\ audio_thread[i] = "stopped"
        /\ Len(handed[i]) >= 2
        /\ closed[i]

\* C6: a request put on a queue before the sentinel is either still pending
\* in the queue or was handed to the device exactly once
C6_ConsumedExactlyOnce ==
    \A i \in Insts : \A r \in BeforeSentinel(enq[i]) :
        Count(handed[i], r) + Count(audio_queue[i], r) = 1

C6_Witness ==
    \E i \in Insts :
        /\ Len(handed[i]) >= 2
        /\ Count(audio_queue[i], None) > 0
        /\ \E r \in BeforeSentinel(enq[i]) : Count(audio_queue[i], r) = 1

\* C7 as stated: a request submitted after the worker consumed the sentinel
\* is never played and is not kept as a pending item of the queue
C7_LateRequestRejected ==
    \A i \in Insts : \A r \in late :
        Count(handed[i], r) = 0 /\ Count(audio_queue[i], r) = 0

\* C7 as amended: a request submitted after the worker consumed the
\* sentinel is never played; the queue accepts it and it stays pending
C7_LateRequestNeverPlayed ==
    \A i \in Insts : \A r \in late :
        /\ Count(handed[i], r) = 0
        /\ Count(enq[i], r) = Count(audio_queue[i], r)

C7_Witness ==
    \E i \in Insts : \E r \in late :
        audio_thread[i] = "stopped" /\ Count(audio_queue[i], r) = 1

\* C8: at most one worker thread has been started and has not received
\* its sentinel
C8_OneWorkerAlive ==
    Cardinality({i \in Insts : audio_thread[i] \notin {"none", "stopped"}}) <= 1

\* the smallest index whose time value is at least x
SmallestGe(n, x) ==
    CHOOSE i \in 0..(n - 1) :
        /\ TimeAxis(n)[i] >= x
        /\ \A m \in 0..(i - 1) : TimeAxis(n)[m] < x
Range(seq) == {seq[k] : k \in 1..Len(seq)}
SampleIndices(seg) == {seg[k][1] : k \in 1..Len(seg)}

\* C3: a preview handler of the four generators that runs while a preview
\* is playing calls sd.stop() first and sd.play() after it
C3_StopThenPlay ==
    (/\ page \in {"FreeAdd", "PureTone", "SquareWave", "Noise"}
     /\ wasPlaying
     /\ calls # << >>) => calls[1] = "stop"

\* C9: no span-selection handler lets a device error escape
C9_NoErrorEscapes == ~escaped

\* C10: for a selection between the first and the last time value, the
\* handler's indices are the smallest ones at or after xmin and xmax, and
\* the segment it extracts holds both of these samples
C10_InclusiveRange ==
    (/\ "play" \in Range(calls)
     /\ sel[2] <= TimeAxis(nsamp)[nsamp - 1]) =>
        /\ idx = <<SmallestGe(nsamp, sel[1]), SmallestGe(nsamp, sel[2])>>
        /\ idx[1] \in SampleIndices(segment)
        /\ idx[2] \in SampleIndices(segment)

\* the samples the last handler sliced out of the signal, by its own indices:
\* audio[ini:end+1] in FreeAdd and Noise, audio[idx_min:idx_max] elsewhere
Extracted ==
    IF page \in {"FreeAdd", "Noise"}
    THEN SliceInclusive(idx[1], idx[2], nsamp)
    ELSE SliceExclusive(idx[1], idx[2], nsamp)

\* C11: for every selection with 0 <= xmin <= xmax <= duration, the start
\* index the PureTone, SquareWave and Record handlers map it to is never
\* greater than the end index, also when xmax is after the last time value
C11_StartNotAfterEnd ==
    (/\ page \in {"PureTone", "SquareWave", "Record"}
     /\ calls # << >>) => idx[1] <= idx[2]

\* C12: the FreeAdd and PureTone handlers map a coordinate after the last
\* time value to the last index n - 1, never to n and never to 0
C12_ClampsToLastIndex ==
    (/\ page \in {"FreeAdd", "PureTone"}
     /\ calls # << >>) =>
        \A k \in 1..2 :
            sel[k] > TimeAxis(nsamp)[nsamp - 1] => idx[k] = nsamp - 1

\* C13: when the selection collapses to fewer than two samples, the FreeAdd
\* and PureTone handlers start no playback, fade nothing and raise nothing
C13_ShortSelectionNotPlayed ==
    (/\ page \in {"FreeAdd", "PureTone"}
     /\ calls # << >>
     /\ Len(Extracted) < 2) =>
        /\ "play" \notin Range(calls)
        /\ \A k \in 1..Len(segment) : segment[k][2] = segment[k][3]
        /\ ~escaped

\* C14: a Load to Controller of FreeAdd or Noise never hands off a segment
\* that was selected on a signal generated before the present one: after a
\* regeneration with no new selection it hands off the full new signal
C14_StaleSelectionDiscarded == loaded # <<"segment", "previous">>

Min(a, b) == IF a < b THEN a ELSE b

\* C15: the fade length of a FreeAdd selection of L samples is
\* min(floor(0.02 * fs), floor(L / 4)); twice the fade length is at most L,
\* the faded head and tail do not overlap, and with a fade length of 0 the
\* segment is the extracted samples unmodified
C15_FadeLength ==
    (page = "FreeAdd" /\ calls # << >>) =>
        LET L == Len(segment)
            f == FadeSamples(L)
            head == 1..f
            tail == (L - f + 1)..L
        IN /\ f = Min((2 * FreeAddRate) \div 100, L \div 4)
           /\ 2 * f <= L
           /\ head \cap tail = {}
           /\ f = 0 => \A k \in 1..L : segment[k][2] = segment[k][3]

\* a selection long enough for the whole 20 ms fade was extracted and faded
C15_Witness ==
    /\ page = "FreeAdd"
    /\ calls # << >>
    /\ Len(segment) > 4 * FadeMax
    /\ FadeSamples(Len(segment)) = FadeMax
    /\ segment[1][2] = 0
    /\ segment[FadeMax + 1][2] = segment[FadeMax + 1][3]

\* C16: after a fade of length at least 1 the first and the last sample of
\* the segment are 0, and every sample at an index in [fade_len, L - fade_len)
\* has its original value
C16_FadedEndsSilent ==
    (/\ page = "FreeAdd"
     /\ calls # << >>
     /\ FadeSamples(Len(segment)) >= 1) =>
        LET L == Len(segment)
            f == FadeSamples(L)
        IN /\ segment[1][2] = 0
           /\ segment[L][2] = 0
           /\ \A k \in (f + 1)..(L - f) : segment[k][2] = segment[k][3]

\* what a span-selection handler assigns, and no other operation does: a
\* step that changes it is a step of the page's handler
SelectionState == <<sel, idx, segment, calls, wasPlaying>>

\* C17: onselect fades the extracted copy only: no selection changes
\* full_audio
C17_OnselectKeepsFullAudio ==
    [][(page = "FreeAdd" /\ SelectionState' # SelectionState) =>
          full_audio' = full_audio]_vars

\* a selection was extracted and faded, and full_audio is as generated
C17_Witness ==
    /\ page = "FreeAdd"
    /\ calls # << >>
    /\ FadeSamples(Len(segment)) >= 2
    /\ segment[1][2] = 0
    /\ full_audio = Generated(nsamp)

\* C18: whenever a span-selection handler of a generator runs, the time axis
\* it searches has as many entries as the signal it slices, and that number
\* is floor(duration * sample_rate) for the duration and rate the stored
\* signal was generated with
C18_TimeAxisMatchesSignal ==
    [][(page \in GenPages /\ SelectionState' # SelectionState) =>
          /\ ntime' = nsamp
          /\ nsamp = Samples(gen[1], gen[2])]_vars

\* C19: a Noise generation with a positive rate and duration * rate < 1
\* yields an empty signal and ends without an error
C19_EmptySignalNoError ==
    [][\A text \in FsTexts, raise1 \in BOOLEAN :
          (/\ plot_noise(text, raise1)
           /\ text[1] = "int"
           /\ text[2] > 0
           /\ dur * text[2] < 100) => outcome' # "raised"]_vars

\* C20: a Noise generation with a sample rate <= 0 is rejected with a
\* reported condition, before the time axis or the signal is allocated
C20_NonPositiveRateRejected ==
    [][\A text \in FsTexts, raise1 \in BOOLEAN :
          (/\ plot_noise(text, raise1)
           /\ text[1] = "int"
           /\ text[2] <= 0) =>
              /\ outcome' = "rejected"
              /\ UNCHANGED <<ntime, nsamp, full_audio>>]_vars

\* the last strike: its object, its MIDI note
StruckMidi == midi_note(struck[2], struck[3])

\* C21: after a key strike at any octave in 1..8 the six tone entries hold
\* the ladder of the struck note: entry k has k times the fundamental
\* (rounded to the spin box's integer), no frequency brought into the spin
\* box's range, and the amplitudes are 1.0, 0.83, 0.67, 0.5, 0.33, 0.17
C21_LadderNotClamped ==
    struck # NoStrike =>
        /\ freq_spinboxes[struck[1]] =
              [k \in 1..6 |-> Harmonic(StruckMidi, k)]
        /\ amp_sliders[struck[1]] = <<100, 83, 67, 50, 33, 17>>

C23_PianoOpenIffWindow ==
    /\ \A i \in Insts : pianoOpen[i] <=> piano[i]
    /\ ~pianoError

\* C24: the control_windows list of the Load page never holds more than
\* MAX_WINDOWS windows; the window a Load to Controller request takes from
\* the list at the limit is the oldest of the list, is no longer in the list
\* and is not open
C24_WindowLimit ==
    /\ Len(control_windows["Load"]) <= MAX_WINDOWS
    /\ evicted # 0 =>
          /\ winState[evicted] # "open"
          /\ \A k \in 1..Len(control_windows["Load"]) :
                control_windows["Load"][k] > evicted

C24_Witness ==
    /\ evicted # 0
    /\ Len(control_windows["Load"]) = MAX_WINDOWS
    /\ winState[evicted] = "closed"

\* C25: once close_all_windows has run (the main window was closed) no
\* control window is open, those made by the generator pages included
C25_ClosesEveryControlWindow ==
    mainClosed => \A w \in WinIds : winState[w] # "open"

\* C26: on the Noise page the rate a selected fragment is played with
\* (self.fs) is the rate the stored signal was generated with, and a Plot
\* with a rate above 48000 Hz leaves fs, the signal and the time axis as
\* they were
C26_FragmentRateIsSignalRate ==
    [][/\ (\E s \in NoiseSelections : listen_fragment(s[1], s[2], FALSE))
             => fs = gen[2]
       /\ Plot(IntText(48001))
             => UNCHANGED <<fs, nsamp, ntime, full_audio>>]_vars

\* C27: what a control window is given is consistent: its duration times
\* its rate is the number of its samples, up to one sample
C27_HandoffDurationMatchesSamples ==
    LET n == handoff[1]
        product == handoff[2] * handoff[4]
        den == handoff[3]
    IN /\ product - n * den <= den
       /\ n * den - product <= den

\* C28: on the Record page, after any sequence of Record clicks, Stop
\* clicks, auto-stop expiries and recording-thread errors, isrecording is
\* true exactly when the Stop button is enabled and the Record button is
\* disabled, at most one recording thread runs at a time, and a
\* stop_recording call made while not recording changes nothing but the
\* record of the call
RecordButtonsFollowFlag ==
    /\ isrecording <=> (stop_button /\ ~record_button)
    /\ Cardinality(running_threads) <= 1
    /\ recording_thread # 0 => running_threads \subseteq {recording_thread}
IdleStopChangesNothing ==
    stoppedIdle' # stoppedIdle =>
        UNCHANGED <<isrecording, record_button, stop_button, rec_frames,
                    recording_thread, running_threads, auto_stop_timer,
                    scheduled, captured, processedOf, nRec>>
C28_RecordStateConsistent ==
    [](RecordButtonsFollowFlag) /\ [][IdleStopChangesNothing]_vars

\* a second recording runs after the first was stopped and a stop_recording
\* call found nothing to stop
C28_Witness ==
    /\ nRec = 2
    /\ isrecording
    /\ running_threads = {2}
    /\ stoppedIdle

\* C29: the deferred process_recording call of a recording works on exactly
\* the frames that recording had when it was stopped
C29_ProcessesItsOwnFrames ==
    \A r \in 1..MaxRec :
        processedOf[r][1] => processedOf[r][2] = captured[r]

\* C30: cleanup runs at most once on an AudioFFTVisualizer object, so its
\* stream is never stopped or closed again after it was closed and PyAudio
\* terminated
C30_CleanupOncePerInstance ==
    \A i \in Insts :
        tuner[i].stream # "none" =>
            tuner[i].cleanups <= 1 /\ ~tuner[i].again

====
